---- MODULE Spec2Model ----
(***************************************************************************)
(* Layout and auto-sizing engine of ctai_excel_reporter                    *)
(* (BaseExcelReporter / ExcelReporter).                                    *)
(*                                                                         *)
(* Conventions of the model                                                *)
(*  - A Python string is a sequence of one-character strings; "\n" is the  *)
(*    line break.                                                          *)
(*  - A column width (a Python float) is an integer number of 1/6400 of a  *)
(*    cell-width unit, so that 8.43, 3.5 and len * 9 * 8.43 / 64 are all   *)
(*    exact integers: 8.43 is 53952.                                       *)
(*  - The image scale (a Python float) is an exact fraction <<num, den>>.  *)
(*  - A cursor is a Python list.  The model keeps the list objects that    *)
(*    can be alive: the one list object that is the default value of the   *)
(*    `cursor` parameter of set_active_sheet (created once, when the       *)
(*    function is defined), and at most one private list per reporter.     *)
(*    cursorRef says which of them self._cursor points to.                 *)
(***************************************************************************)
EXTENDS Integers, Sequences, FiniteSets, TLC

\* ---------------------------------------------------------------- bounds
MaxOps == 3          \* sheet / placement operations in one behaviour
MaxSheets == 2       \* sheets one reporter creates
MaxCol == 7          \* last column the model keeps a width for

Inst == {1, 2}       \* reporter instances

\* ------------------------------------------------------ class constants
CELL_WIDTH == 53952          \* 8.43 cell-width units
PIXEL_CELL_WIDTH == 64
PIXEL_ROW_HEIGHT == 20
PIXEL_CHAR_WIDTH == 9        \* int(8 * 1.125)

NECESSARY_FORMAT_KEYS ==
    {"default_cell", "sheet_title", "text_title", "textbox",
     "table_columns", "table_index"}

\* ------------------------------------------------------------- inputs
Rep(n) == [k \in 1..n |-> "a"]

\* constructor arguments (pixel_sheet_width, max_cell_width, min_cell_width):
\* the defaults (1200, 24, 3.5), and a narrow sheet (600) with maximum width 5
Configs ==
    { [pixel_sheet_width |-> 1200, max_cell_width |-> 153600, min_cell_width |-> 22400],
      [pixel_sheet_width |-> 600,  max_cell_width |-> 32000,  min_cell_width |-> 22400] }

NoConfig == [pixel_sheet_width |-> 0, max_cell_width |-> 0, min_cell_width |-> 0]

\* theme documents: a complete one, and one without the key 'textbox'
ThemeDocs == { NECESSARY_FORMAT_KEYS, NECESSARY_FORMAT_KEYS \ {"textbox"} }

\* texts: the empty string, "ab\ncd", one line of 134 characters
Texts == { <<>>, <<"a", "b", "\n", "c", "d">>, Rep(134) }

NoTitle == [given |-> FALSE, text |-> <<>>]
Titles == { NoTitle, [given |-> TRUE, text |-> Rep(5)], [given |-> TRUE, text |-> Rep(29)] }

DefaultCursorArg == [given |-> FALSE, pos |-> <<0, 0>>]
CursorArgs == { DefaultCursorArg, [given |-> TRUE, pos |-> <<1, 1>>] }

Strings == { <<"H", "e", "l", "l", "o">> }

ImageSizes == { <<900, 1600>>, <<300, 400>>, <<1800, 90>> }
MaxPixelSizes == { <<450, 800>>, <<600, 300>> }

Col(name, dtype) == [name |-> name, dtype |-> dtype]
DataFrames ==
    { [rows |-> 0, columns |-> << Col(Rep(8), "int") >>],
      [rows |-> 1, columns |-> << Col(Rep(26), "float") >>],
      [rows |-> 3, columns |-> << Col(<<"p", "%">>, "float"), Col(Rep(8), "int") >>],
      [rows |-> 2, columns |-> << Col(Rep(3), "object"), Col(Rep(26), "object") >>],
      [rows |-> 2, columns |-> << >>] }

\* --------------------------------------------------------------- state
VARIABLES
    pc,             \* per reporter: "new", "entered", "ctor_failed", "closed"
    wbOpen,         \* per reporter: the workbook handle is acquired and not closed
    config,         \* per reporter: PIXEL_SHEET_WIDTH, MAX_CELL_WIDTH, MIN_CELL_WIDTH
    sheetnames,     \* per reporter: number of sheets of the workbook (named 1..n)
    sheet,          \* per reporter: the active sheet, 0 for None
    col_info,       \* per reporter and sheet: column -> width
    defaultCursor,  \* the list object that is set_active_sheet's default `cursor`
    ownCursor,      \* per reporter: its private cursor list
    cursorRef,      \* per reporter: "none", "default" or "own"
    occupied,       \* per reporter: last row occupied by a block since the cursor was set
    opCount,        \* operations performed so far
    lastOp          \* the operation performed by the last step

vars == <<pc, wbOpen, config, sheetnames, sheet, col_info, defaultCursor,
          ownCursor, cursorRef, occupied, opCount, lastOp>>

\* ------------------------------------------------------ cursor objects
NoCursor == <<>>

Heap == [d |-> defaultCursor, o |-> ownCursor, r |-> cursorRef]

\* self._cursor of reporter i in heap h
Cur(h, i) ==
    IF h.r[i] = "default" THEN h.d
    ELSE IF h.r[i] = "own" THEN h.o[i]
    ELSE NoCursor

Cursor(i) == Cur(Heap, i)

\* self._cursor = <a fresh list holding pos>
assign_cursor(h, i, pos) == [h EXCEPT !.o[i] = pos, !.r[i] = "own"]

\* set_active_sheet: self._cursor = cursor, where cursor is the caller's
\* list or, when no argument is given, the one default list object
set_active_sheet(h, i, arg) ==
    IF arg.given
    THEN assign_cursor(h, i, arg.pos)
    ELSE [h EXCEPT !.o[i] = <<0, 0>>, !.r[i] = "default"]

\* apply_shift: self._cursor[0] += shift[0]; self._cursor[1] += shift[1],
\* in place, on whichever list object self._cursor is
apply_shift(h, i, shift) ==
    IF h.r[i] = "default"
    THEN [h EXCEPT !.d = <<@[1] + shift[1], @[2] + shift[2]>>]
    ELSE [h EXCEPT !.o[i] = <<@[1] + shift[1], @[2] + shift[2]>>]

\* ------------------------------------------------------ pure functions
None == "None"

Max(a, b) == IF a >= b THEN a ELSE b

\* text.split('\n'): the lines of a text, at least one
RECURSIVE split(_)
split(text) ==
    IF \A k \in 1..Len(text) : text[k] # "\n"
    THEN << text >>
    ELSE LET p == CHOOSE k \in 1..Len(text) :
                      text[k] = "\n" /\ \A m \in 1..(k - 1) : text[m] # "\n"
         IN << SubSeq(text, 1, p - 1) >> \o split(SubSeq(text, p + 1, Len(text)))

\* __printed_text_height: one row per line plus one per wrapped segment
RECURSIVE SumHeights(_, _)
SumHeights(lines, psw) ==
    IF lines = << >> THEN 0
    ELSE (Len(Head(lines)) * PIXEL_CHAR_WIDTH) \div psw + 1 + SumHeights(Tail(lines), psw)

printed_text_height(text, psw) == SumHeights(split(text), psw)

\* __printed_value_width: len(str(value)) * PIXEL_CHAR_WIDTH * PIXEL_TO_WIDTH_RATIO
printed_value_width(value) ==
    (Len(value) * PIXEL_CHAR_WIDTH * CELL_WIDTH) \div PIXEL_CELL_WIDTH

\* __clip
clip(value, lower, upper) ==
    IF value < lower THEN lower ELSE IF value > upper THEN upper ELSE value

image_scale_upscaling(size, max_pixel_size) ==
    LET sw == << max_pixel_size[1], size[1] >>
        sh == << max_pixel_size[2], size[2] >>
    IN IF sh[1] * sw[2] < sw[1] * sh[2] THEN sh ELSE sw

\* _image: scale = min(1, maxW / w, maxH / h) as a fraction; Python's min
\* returns the first of equal arguments
image_scale(size, max_pixel_size) ==
    LET sw == << max_pixel_size[1], size[1] >>
        sh == << max_pixel_size[2], size[2] >>
        m1 == IF sw[1] < sw[2] THEN sw ELSE << 1, 1 >>
    IN IF sh[1] * m1[2] < m1[1] * sh[2] THEN sh ELSE m1

\* math.ceil(num / den) for num >= 0, den > 0
ceil(num, den) == (num + den - 1) \div den

\* _image: rows the scaled image covers, ceil(h * scale / PIXEL_ROW_HEIGHT)
image_rows(size, scale) == ceil(size[2] * scale[1], scale[2] * PIXEL_ROW_HEIGHT)

\* _image: the shift used when none is given
image_shift(size, scale) == << image_rows(size, scale) + 1, 0 >>

textbox_shift_short(text_height) == << text_height, 0 >>

\* _textbox: the shift used when none is given
textbox_shift(text_height) == << text_height + 2, 0 >>

\* _table: the shift used when none is given
table_shift(df) == << df.rows + 2, 0 >>

\* _textbox: number of blank header cells written after the title
title_blank_cells(title) ==
    Max(3, (Len(title) * PIXEL_CHAR_WIDTH) \div PIXEL_CELL_WIDTH)

\* __get_col_width
get_col_width(info, col) == IF col \in DOMAIN info THEN info[col] ELSE CELL_WIDTH

\* _table, per column: the width the column has after the header was seen
\* (the comparison in _table, then __adjust_col_width)
adjust_col_width(cur_width, col_name, cfg) ==
    LET need_width == printed_value_width(col_name)
    IN IF cur_width < need_width
       THEN clip(need_width, cfg.min_cell_width, cfg.max_cell_width)
       ELSE cur_width

\* __get_number_format
get_number_format(column) ==
    IF \E k \in 1..Len(column.name) : column.name[k] = "%" THEN "0.00%"
    ELSE IF column.dtype = "int" THEN "0"
    ELSE IF column.dtype = "float" THEN "0.000"
    ELSE None

\* __cast_to_str_except_numbers, by the type of the column's values
cast_to_str_except_numbers(column) ==
    IF column.dtype \in {"int", "float"} THEN "number" ELSE "str"

table_item_borders_no_corner(cur_row, cur_col, df) ==
    IF cur_row = df.rows - 1 THEN {"bottom"}
    ELSE IF cur_col = Len(df.columns) - 1 THEN {"right"}
    ELSE {}

\* __get_table_item_format: the borders set on the format of cell (cur_row, cur_col)
table_item_borders(cur_row, cur_col, df) ==
    IF cur_row = df.rows - 1 /\ cur_col = Len(df.columns) - 1 THEN {"bottom", "right"}
    ELSE IF cur_row = df.rows - 1 THEN {"bottom"}
    ELSE IF cur_col = Len(df.columns) - 1 THEN {"right"}
    ELSE {}

table_writes_no_index_column(pos, df) ==
    LET C == Len(df.columns)
    IN { [row |-> pos[1], col |-> j + pos[2], what |-> "column", i |-> -1, j |-> j,
          borders |-> {}, num_format |-> None, value |-> "str"] : j \in 0..(C - 1) }
       \cup
       { [row |-> pos[1] + i + 1, col |-> pos[2], what |-> "index", i |-> i, j |-> -1,
          borders |-> {}, num_format |-> None, value |-> "str"] : i \in 0..(df.rows - 1) }
       \cup
       { [row |-> pos[1] + ij[1] + 1, col |-> pos[2] + ij[2], what |-> "value",
          i |-> ij[1], j |-> ij[2],
          borders |-> table_item_borders(ij[1], ij[2], df),
          num_format |-> get_number_format(df.columns[ij[2] + 1]),
          value |-> cast_to_str_except_numbers(df.columns[ij[2] + 1])] :
            ij \in (0..(df.rows - 1)) \X (0..(C - 1)) }

\* _table: the cells written for df when the cursor is at pos
table_writes(pos, df) ==
    LET C == Len(df.columns)
    IN { [row |-> pos[1], col |-> j + pos[2] + 1, what |-> "column", i |-> -1, j |-> j,
          borders |-> {}, num_format |-> None, value |-> "str"] : j \in 0..(C - 1) }
       \cup
       { [row |-> pos[1] + i + 1, col |-> pos[2], what |-> "index", i |-> i, j |-> -1,
          borders |-> {}, num_format |-> None, value |-> "str"] : i \in 0..(df.rows - 1) }
       \cup
       { [row |-> pos[1] + ij[1] + 1, col |-> pos[2] + ij[2] + 1, what |-> "value",
          i |-> ij[1], j |-> ij[2],
          borders |-> table_item_borders(ij[1], ij[2], df),
          num_format |-> get_number_format(df.columns[ij[2] + 1]),
          value |-> cast_to_str_except_numbers(df.columns[ij[2] + 1])] :
            ij \in (0..(df.rows - 1)) \X (0..(C - 1)) }

\* _table: the column widths of the sheet after the header loop
table_col_info(info, pos, df, cfg) ==
    [c \in DOMAIN info |->
        IF c - pos[2] - 1 \in 0..(Len(df.columns) - 1)
        THEN adjust_col_width(get_col_width(info, c), df.columns[c - pos[2]].name, cfg)
        ELSE info[c]]

\* _text called n times with shift [0, 1]
RECURSIVE text_cells(_, _, _)
text_cells(h, i, n) ==
    IF n = 0 THEN h ELSE text_cells(apply_shift(h, i, << 0, 1 >>), i, n - 1)

textbox_title_no_restore(h, i, title) ==
    IF title.given
    THEN text_cells(h, i, 1 + title_blank_cells(title.text))
    ELSE h

\* _textbox, the title branch: the title and the blank header cells are
\* written through _text, then self._cursor = self._cursor_anchor (the copy)
textbox_title(h, i, title) ==
    IF title.given
    THEN LET cursor_anchor == Cur(h, i)
             moved == text_cells(h, i, 1 + title_blank_cells(title.text))
         IN assign_cursor(moved, i, cursor_anchor)
    ELSE h

\* _textbox with shift=None
textbox(h, i, text, title, psw) ==
    apply_shift(textbox_title(h, i, title), i,
                textbox_shift(printed_text_height(text, psw)))

\* -------------------------------------------------------------- Init
Init ==
    /\ pc = [i \in Inst |-> "new"]
    /\ wbOpen = [i \in Inst |-> FALSE]
    /\ config = [i \in Inst |-> NoConfig]
    /\ sheetnames = [i \in Inst |-> 0]
    /\ sheet = [i \in Inst |-> 0]
    /\ col_info = [i \in Inst |-> [s \in 1..MaxSheets |-> << >>]]
    /\ defaultCursor = <<0, 0>>
    /\ ownCursor = [i \in Inst |-> <<0, 0>>]
    /\ cursorRef = [i \in Inst |-> "none"]
    /\ occupied = [i \in Inst |-> -1]
    /\ opCount = 0
    /\ lastOp = [kind |-> "init", inst |-> 0]

SetHeap(h) ==
    /\ defaultCursor' = h.d
    /\ ownCursor' = h.o
    /\ cursorRef' = h.r

\* -------------------------------------------------- reporter life cycle
\* _read_theme: raises ValueError when a necessary key is missing
ReadThemeOk(theme) == \A key \in NECESSARY_FORMAT_KEYS : key \in theme

\* `with ExcelReporter(path, theme, ..., psw, max, min) as r:`
\* BaseExcelReporter.__init__ acquires the workbook, then _read_theme runs;
\* when it raises, __enter__ and __exit__ never run.
Construct(i, cfg, theme) ==
    /\ pc[i] = "new"
    /\ wbOpen' = [wbOpen EXCEPT ![i] = TRUE]
    /\ config' = [config EXCEPT ![i] = cfg]
    /\ pc' = [pc EXCEPT ![i] = IF ReadThemeOk(theme) THEN "entered" ELSE "ctor_failed"]
    /\ lastOp' = [kind |-> "construct", inst |-> i]
    /\ UNCHANGED <<sheetnames, sheet, col_info, defaultCursor, ownCursor,
                   cursorRef, occupied, opCount>>

\* close(): self._wb.close()
close(i) == wbOpen' = [wbOpen EXCEPT ![i] = FALSE]

\* the body of the with-statement completes: __exit__ calls close
ExitScope(i) ==
    /\ pc[i] = "entered"
    /\ close(i)
    /\ pc' = [pc EXCEPT ![i] = "closed"]
    /\ lastOp' = [kind |-> "exit", inst |-> i]
    /\ UNCHANGED <<config, sheetnames, sheet, col_info, defaultCursor, ownCursor,
                   cursorRef, occupied, opCount>>

\* set_active_sheet(name) for a name the workbook does not have: the lookup
\* self._wb.sheetnames[name] raises KeyError, no attribute is assigned, the
\* exception leaves the with-body and __exit__ calls close
SetActiveSheetMissing(i, name) ==
    /\ pc[i] = "entered"
    /\ name \notin 1..sheetnames[i]
    /\ close(i)
    /\ pc' = [pc EXCEPT ![i] = "closed"]
    /\ lastOp' = [kind |-> "raise", inst |-> i]
    /\ UNCHANGED <<config, sheetnames, sheet, col_info, defaultCursor, ownCursor,
                   cursorRef, occupied, opCount>>

\* ------------------------------------------------------------- sheets
CanOp(i) == pc[i] = "entered" /\ opCount < MaxOps

\* create_empty_sheet(name): add_worksheet, set_column('A:ZZ', CELL_WIDTH),
\* then set_active_sheet(name) with the default cursor
CreateEmptySheet(i) ==
    /\ CanOp(i)
    /\ sheetnames[i] < MaxSheets
    /\ LET name == sheetnames[i] + 1
           h == set_active_sheet(Heap, i, DefaultCursorArg)
       IN /\ sheetnames' = [sheetnames EXCEPT ![i] = name]
          /\ sheet' = [sheet EXCEPT ![i] = name]
          /\ col_info' = [col_info EXCEPT ![i][name] = [c \in 0..MaxCol |-> CELL_WIDTH]]
          /\ SetHeap(h)
          /\ occupied' = [occupied EXCEPT ![i] = -1]
          /\ lastOp' = [kind |-> "create_empty_sheet", inst |-> i, arg |-> DefaultCursorArg]
    /\ opCount' = opCount + 1
    /\ UNCHANGED <<pc, wbOpen, config>>

\* set_active_sheet(name, cursor) for an existing sheet
SetActiveSheet(i, name, arg) ==
    /\ CanOp(i)
    /\ name \in 1..sheetnames[i]
    /\ sheet' = [sheet EXCEPT ![i] = name]
    /\ SetHeap(set_active_sheet(Heap, i, arg))
    /\ occupied' = [occupied EXCEPT ![i] = -1]
    /\ lastOp' = [kind |-> "set_active_sheet", inst |-> i, arg |-> arg]
    /\ opCount' = opCount + 1
    /\ UNCHANGED <<pc, wbOpen, config, sheetnames, col_info>>

\* ---------------------------------------------------------- placements
CanPlace(i) == CanOp(i) /\ sheet[i] # 0

\* the block just placed covers rows top..bottom of the active sheet
Placed(i, bottom) == occupied' = [occupied EXCEPT ![i] = Max(@, bottom)]

\* insert_text(string): _text(string, shift=(2, 0))
InsertText(i, string) ==
    /\ CanPlace(i)
    /\ LET pos == Cursor(i)
       IN /\ SetHeap(apply_shift(Heap, i, << 2, 0 >>))
          /\ Placed(i, pos[1])
          /\ lastOp' = [kind |-> "insert_text", inst |-> i, pre |-> pos,
                        top |-> pos[1], bottom |-> pos[1], prevBottom |-> occupied[i],
                        string |-> string, writes |-> { pos }]
    /\ opCount' = opCount + 1
    /\ UNCHANGED <<pc, wbOpen, config, sheetnames, sheet, col_info>>

\* insert_textbox(text, title): _textbox with shift=None
InsertTextbox(i, text, title) ==
    /\ CanPlace(i)
    /\ LET pos == Cursor(i)
           text_height == printed_text_height(text, config[i].pixel_sheet_width)
           box_pos == << pos[1] + 1, pos[2] >>
           cells == IF title.given THEN 1 + title_blank_cells(title.text) ELSE 0
       IN /\ pos[2] + cells <= MaxCol
          /\ SetHeap(textbox(Heap, i, text, title, config[i].pixel_sheet_width))
          /\ Placed(i, pos[1] + text_height)
          /\ lastOp' = [kind |-> "insert_textbox", inst |-> i, pre |-> pos,
                        top |-> pos[1], bottom |-> pos[1] + text_height,
                        prevBottom |-> occupied[i],
                        title |-> title, text_height |-> text_height,
                        box_pos |-> box_pos,
                        box_size |-> << config[i].pixel_sheet_width,
                                        text_height * PIXEL_ROW_HEIGHT >>,
                        writes |-> { << pos[1], pos[2] + k >> : k \in 0..(cells - 1) }]
    /\ opCount' = opCount + 1
    /\ UNCHANGED <<pc, wbOpen, config, sheetnames, sheet, col_info>>

\* insert_image(image, name, max_pixel_size): _image with shift=None
InsertImage(i, size, max_pixel_size) ==
    /\ CanPlace(i)
    /\ LET pos == Cursor(i)
           scale == image_scale(size, max_pixel_size)
       IN /\ SetHeap(apply_shift(Heap, i, image_shift(size, scale)))
          /\ Placed(i, pos[1] + image_rows(size, scale) - 1)
          /\ lastOp' = [kind |-> "insert_image", inst |-> i, pre |-> pos,
                        top |-> pos[1], bottom |-> pos[1] + image_rows(size, scale) - 1,
                        prevBottom |-> occupied[i],
                        size |-> size, max_pixel_size |-> max_pixel_size,
                        im_pos |-> pos, x_scale |-> scale, y_scale |-> scale]
    /\ opCount' = opCount + 1
    /\ UNCHANGED <<pc, wbOpen, config, sheetnames, sheet, col_info>>

\* insert_table(df): _table with shift=None
InsertTable(i, df) ==
    /\ CanPlace(i)
    /\ LET pos == Cursor(i)
       IN /\ pos[2] + Len(df.columns) <= MaxCol
          /\ col_info' = [col_info EXCEPT ![i][sheet[i]] =
                             table_col_info(@, pos, df, config[i])]
          /\ SetHeap(apply_shift(Heap, i, table_shift(df)))
          /\ Placed(i, pos[1] + df.rows)
          /\ lastOp' = [kind |-> "insert_table", inst |-> i, pre |-> pos,
                        top |-> pos[1], bottom |-> pos[1] + df.rows,
                        prevBottom |-> occupied[i],
                        df |-> df, writes |-> table_writes(pos, df)]
    /\ opCount' = opCount + 1
    /\ UNCHANGED <<pc, wbOpen, config, sheetnames, sheet>>

\* create_titled_sheet(sheet_name, title, description) with the default
\* title_cell_height = 2 and logo_cell_width = 2: create_empty_sheet, then
\* _set_logo_title (logo image and title text with shift (0, 0), the cursor
\* assigned fresh lists), then _textbox(description, None)
CreateTitledSheet(i, description) ==
    /\ CanOp(i)
    /\ sheetnames[i] < MaxSheets
    /\ LET name == sheetnames[i] + 1
           h1 == set_active_sheet(Heap, i, DefaultCursorArg)
           h2 == apply_shift(h1, i, << 0, 0 >>)
           h3 == apply_shift(assign_cursor(h2, i, << 2 - 1, 2 >>), i, << 0, 0 >>)
           h4 == assign_cursor(h3, i, << 2, 1 >>)
           text_height == printed_text_height(description, config[i].pixel_sheet_width)
       IN /\ sheetnames' = [sheetnames EXCEPT ![i] = name]
          /\ sheet' = [sheet EXCEPT ![i] = name]
          /\ col_info' = [col_info EXCEPT ![i][name] = [c \in 0..MaxCol |-> CELL_WIDTH]]
          /\ SetHeap(textbox(h4, i, description, NoTitle, config[i].pixel_sheet_width))
          /\ occupied' = [occupied EXCEPT ![i] = 2 + text_height]
          /\ lastOp' = [kind |-> "create_titled_sheet", inst |-> i,
                        box_pos |-> << 3, 1 >>, text_height |-> text_height]
    /\ opCount' = opCount + 1
    /\ UNCHANGED <<pc, wbOpen, config>>

Next ==
    \/ \E i \in Inst, cfg \in Configs, theme \in ThemeDocs : Construct(i, cfg, theme)
    \/ \E i \in Inst : ExitScope(i)
    \/ \E i \in Inst, name \in 1..MaxSheets : SetActiveSheetMissing(i, name)
    \/ \E i \in Inst : CreateEmptySheet(i)
    \/ \E i \in Inst, name \in 1..MaxSheets, arg \in CursorArgs : SetActiveSheet(i, name, arg)
    \/ \E i \in Inst, description \in Texts : CreateTitledSheet(i, description)
    \/ \E i \in Inst, string \in Strings : InsertText(i, string)
    \/ \E i \in Inst, text \in Texts, title \in Titles : InsertTextbox(i, text, title)
    \/ \E i \in Inst, size \in ImageSizes, mps \in MaxPixelSizes : InsertImage(i, size, mps)
    \/ \E i \in Inst, df \in DataFrames : InsertTable(i, df)

Spec == Init /\ [][Next]_vars

\* ------------------------------------------------------------ properties
Placements == {"insert_text", "insert_textbox", "insert_image", "insert_table"}

\* C1: with default shifts, every row occupied by the blocks placed since
\* the cursor was set is strictly above the row at which the next block is
\* placed: above the row of the block just placed, and above the cursor row
\* the placement leaves for its successor.
BlocksNeverOverlap ==
    /\ lastOp.kind \in Placements => lastOp.prevBottom < lastOp.top
    /\ \A i \in Inst : cursorRef[i] # "none" => occupied[i] < Cursor(i)[1]

SecondBlockPlaced == lastOp.kind \in Placements /\ lastOp.prevBottom >= 0

\* C2: set_active_sheet without a cursor argument (create_empty_sheet's call
\* included) leaves the cursor at the origin, and with a cursor p at p.
SetActiveSheetResetsCursor ==
    lastOp.kind \in {"set_active_sheet", "create_empty_sheet"} =>
        Cursor(lastOp.inst) = (IF lastOp.arg.given THEN lastOp.arg.pos ELSE << 0, 0 >>)

\* C3: no step decreases the width of a column of a sheet.
WidthsNeverDecrease ==
    [][\A i \in Inst : \A s \in 1..MaxSheets : \A c \in DOMAIN col_info[i][s] :
          col_info'[i][s][c] >= col_info[i][s][c]]_vars

\* C4: every stored column width lies in [MIN_CELL_WIDTH, MAX_CELL_WIDTH] of
\* the reporter's configuration.
WidthsWithinBounds ==
    \A i \in Inst : \A s \in 1..MaxSheets : \A c \in DOMAIN col_info[i][s] :
        /\ config[i].min_cell_width <= col_info[i][s][c]
        /\ col_info[i][s][c] <= config[i].max_cell_width

\* C5: once the scope that opened a reporter has been left (normally, by an
\* exception of the body, or by an exception of the construction), the
\* workbook handle acquired by the construction has been released.
HandleReleasedOnExit ==
    \A i \in Inst : pc[i] \in {"closed", "ctor_failed"} => ~wbOpen[i]

\* C6: in a table render, a data cell (i, j) has a bottom border iff it is in
\* the last row, a right border iff it is in the last column, exactly one data
\* cell has both when there is a data cell, and header and index cells have none.
TableBorders ==
    lastOp.kind = "insert_table" =>
        LET R == lastOp.df.rows
            C == Len(lastOp.df.columns)
            data == { w \in lastOp.writes : w.what = "value" }
        IN /\ \A w \in data : ("bottom" \in w.borders) <=> (w.i = R - 1)
           /\ \A w \in data : ("right" \in w.borders) <=> (w.j = C - 1)
           /\ \A w \in data : w.borders \subseteq {"bottom", "right"}
           /\ (R >= 1 /\ C >= 1) =>
                 { << w.i, w.j >> : w \in { v \in data : v.borders = {"bottom", "right"} } }
                    = { << R - 1, C - 1 >> }
           /\ \A w \in lastOp.writes \ data : w.borders = {}

TableWithInnerCells ==
    /\ lastOp.kind = "insert_table"
    /\ lastOp.df.rows = 3
    /\ Len(lastOp.df.columns) = 2

\* C7: a table render at (r, c) writes column name j at (r, c+1+j), index
\* label i at (r+1+i, c), value (i, j) at (r+1+i, c+1+j), nothing else and
\* nothing outside rows r..r+R and columns c..c+C, and leaves the cursor at
\* (r+R+2, c).
TableLayout ==
    lastOp.kind = "insert_table" =>
        LET R == lastOp.df.rows
            C == Len(lastOp.df.columns)
            r == lastOp.pre[1]
            c == lastOp.pre[2]
            At(what, i, j) == { << w.row, w.col >> :
                                  w \in { v \in lastOp.writes :
                                            v.what = what /\ v.i = i /\ v.j = j } }
        IN /\ \A j \in 0..(C - 1) : At("column", -1, j) = { << r, c + 1 + j >> }
           /\ \A i \in 0..(R - 1) : At("index", i, -1) = { << r + 1 + i, c >> }
           /\ \A i \in 0..(R - 1) : \A j \in 0..(C - 1) :
                 At("value", i, j) = { << r + 1 + i, c + 1 + j >> }
           /\ Cardinality(lastOp.writes) = C + R + R * C
           /\ \A w \in lastOp.writes : w.row \in r..(r + R) /\ w.col \in c..(c + C)
           /\ Cursor(lastOp.inst) = << r + R + 2, c >>
           /\ (R = 3 /\ C = 2) => Cursor(lastOp.inst)[1] - r = 5
           /\ R = 0 => /\ Cursor(lastOp.inst)[1] - r = 2
                       /\ { w.row : w \in lastOp.writes } \subseteq { r }

TableBelowOrigin ==
    /\ lastOp.kind = "insert_table"
    /\ lastOp.df.rows = 3
    /\ Len(lastOp.df.columns) = 2
    /\ lastOp.pre[1] > 0

TextboxCursor ==
    lastOp.kind = "insert_textbox" =>
        /\ Cursor(lastOp.inst) = << lastOp.pre[1] + lastOp.text_height + 2, lastOp.pre[2] >>
        /\ lastOp.box_pos = << lastOp.pre[1] + 1, lastOp.pre[2] >>

TitledTextboxPlaced ==
    /\ lastOp.kind = "insert_textbox"
    /\ lastOp.title.given
    /\ Len(lastOp.title.text) = 29

\* C10: a step performed by one reporter leaves the cursor of every other
\* reporter unchanged.
CursorOwnedByInstance ==
    [][\A i \in Inst : lastOp'.inst # i => Cursor(i)' = Cursor(i)]_vars
====
